---- MODULE Spec2Model ----
(***************************************************************************)
(* Allergie-Tagebuch (symptom_tracker_app.py): the three data providers    *)
(* get_weather, get_pollenstiftung and get_dwd_pollen, the Streamlit       *)
(* script run with its nested fetch and save blocks, and the store file    *)
(* allergie_tagebuch.csv as the sequence of characters the saves write.    *)
(*                                                                         *)
(* Python values are records tagged with their type (ty).  An exception    *)
(* that leaves a call is the value Raise(name).  Text is a sequence of     *)
(* one-character strings (column names and the fixed words of a repr are   *)
(* single tokens).                                                         *)
(***************************************************************************)
EXTENDS Integers, Sequences, FiniteSets, TLC

VARIABLES
    file,       \* allergie_tagebuch.csv: its characters, in file order
    fileExists, \* os.path.exists("allergie_tagebuch.csv")
    saved,      \* history: the entries whose to_csv call returned, in order
    failed,     \* history: some to_csv call raised
    pc,         \* per process: where its script run stands
    entry,      \* per process: the dict assembled at lines 113-120
    existed,    \* per process: what os.path.exists returned at line 123
    shown,      \* per process: what the page shows when the run has ended
    trace,      \* per process, history of the run: weather outcome, whether
                \* the pollen provider was called, how the write ended
    call        \* the last direct call of a provider: function, inputs, result

vars == <<file, fileExists, saved, failed, pc, entry, existed, shown, trace, call>>

----------------------------------------------------------------------------
(* Bounds of the model *)

\* successful saves per behaviour
MaxSaves == 2
\* rows of a downloaded DWD dataset
MaxRows == 2

----------------------------------------------------------------------------
(* Python values *)

None == [ty |-> "NoneType"]
NaN == [ty |-> "nan"]
PyInt(n) == [ty |-> "int", v |-> n]
Str(s) == [ty |-> "str", chars |-> s]
Date(d, m) == [ty |-> "date", day |-> d, month |-> m]
Series(n, idx, vs) == [ty |-> "Series", name |-> n, index |-> idx, vals |-> vs]
Raise(e) == [ty |-> "raise", exc |-> e]
Undefined == [ty |-> "undefined"]

IsRaise(v) == v.ty = "raise"

Allergens == <<"birke", "gräser", "ambrosia">>
AllergenSet == {Allergens[i] : i \in 1..Len(Allergens)}

Timestamp(d, m) == [ty |-> "Timestamp", day |-> d, month |-> m]
PyDict(kv) == [ty |-> "dict", items |-> kv]
\* a key that a mapping does not hold
Missing == [ty |-> "missing"]

\* {'birke': None, 'gräser': None, 'ambrosia': None}
AllAbsent == PyDict([a \in AllergenSet |-> None])

\* obj[key] for the objects the script subscripts: a name never assigned
\* (NameError), None (TypeError), a DataFrame (its column as a Series,
\* KeyError without the column), a dict
Subscript(obj, key) ==
    IF obj.ty = "undefined" THEN Raise("NameError")
    ELSE IF obj.ty = "NoneType" THEN Raise("TypeError")
    ELSE IF obj.ty = "DataFrame"
    THEN IF key \in obj.columns
         THEN Series(key, obj.index, obj.data[key])
         ELSE Raise("KeyError")
    ELSE IF key \in DOMAIN obj.items THEN obj.items[key]
    ELSE Raise("KeyError")

----------------------------------------------------------------------------
(* Text: decimal digits, ISO dates *)

DigitChar == <<"0", "1", "2", "3", "4", "5", "6", "7", "8", "9">>

RECURSIVE Dec(_)
\* str(n) for an integer n >= 0
Dec(n) == IF n < 10 THEN <<DigitChar[n + 1]>>
          ELSE Dec(n \div 10) \o <<DigitChar[(n % 10) + 1]>>

\* str(n) for any integer
IntText(n) == IF n < 0 THEN <<"-">> \o Dec(-n) ELSE Dec(n)

\* two digits, zero padded (%m, %d)
Pad2(n) == IF n < 10 THEN <<"0">> \o Dec(n) ELSE Dec(n)

\* date.isoformat(): YYYY-MM-DD (every date of the model is in 2024)
DateText(d) == <<"2024", "-">> \o Pad2(d.month) \o <<"-">> \o Pad2(d.day)

IsDigit(c) == \E i \in 1..10 : DigitChar[i] = c
DigitVal(c) == (CHOOSE i \in 1..10 : DigitChar[i] = c) - 1

\* datetime.strptime(s, "%Y-%m-%d").date(): ValueError unless s is
\* YYYY-MM-DD with a month 1..12 and a day 1..31
Strptime(s) ==
    IF /\ Len(s) = 7 /\ s[1] = "2024" /\ s[2] = "-" /\ s[5] = "-"
       /\ \A i \in {3, 4, 6, 7} : IsDigit(s[i])
    THEN LET m == 10 * DigitVal(s[3]) + DigitVal(s[4])
             d == 10 * DigitVal(s[6]) + DigitVal(s[7])
         IN IF m \in 1..12 /\ d \in 1..31 THEN Date(d, m)
            ELSE Raise("ValueError")
    ELSE Raise("ValueError")

----------------------------------------------------------------------------
(* get_weather: lines 24-37 *)

\* lines 26-29: a str is parsed, a pd.Timestamp cut to its date, anything
\* else is passed on as it is
NormalizeDate(dt) ==
    IF dt.ty = "str" THEN Strptime(dt.chars)
    ELSE IF dt.ty = "Timestamp" THEN Date(dt.day, dt.month)
    ELSE dt

\* met is what Meteostat answers: met.stations is "error" (the station
\* directory cannot be loaded), "empty" or "found"; met.daily is "error"
\* or "ok", and then Daily(station, dt, dt).fetch() is a DataFrame with
\* met.columns and, with met.hasRow, the one row met.row for the day.
\* Nothing in get_weather is guarded: what Meteostat raises leaves it.
get_weather(dt, lat, lon, met) ==
    LET day == NormalizeDate(dt)
    IN IF IsRaise(day) THEN day
       ELSE IF met.stations = "error" THEN Raise("URLError")
       ELSE IF met.stations = "empty" THEN None
       ELSE IF met.daily = "error" THEN Raise("URLError")
       ELSE [ty |-> "DataFrame",
             columns |-> met.columns,
             index |-> IF met.hasRow THEN <<day>> ELSE <<>>,
             data |-> [c \in met.columns |->
                          IF met.hasRow THEN <<met.row[c]>> ELSE <<>>]]

----------------------------------------------------------------------------
(* get_pollenstiftung: lines 41-55 *)

Unparsable == [ty |-> "unparsable"]
EmptyDict == [ty |-> "dict", index |-> Missing]

\* data.get(a, {}).get('index'): lines 50-52.  A value that is no dict
\* (null, a number) has no get: AttributeError.
PollenIndex(data, a) ==
    LET slot == data.items[a]
        obj == IF slot = Missing THEN EmptyDict ELSE slot
    IN IF obj.ty # "dict" THEN Raise("AttributeError")
       ELSE IF obj.index = Missing THEN None
       ELSE obj.index

\* the body of the try block, lines 44-53
pollenstiftung_try(lat, lon, reply) ==
    IF reply.net # "ok" THEN Raise("ConnectionError")
    ELSE IF reply.status >= 400 THEN Raise("HTTPError")
    ELSE IF reply.body = Unparsable THEN Raise("JSONDecodeError")
    ELSE IF reply.body.ty # "dict" THEN Raise("AttributeError")
    ELSE LET r == [a \in AllergenSet |-> PollenIndex(reply.body, a)]
         IN IF \E a \in AllergenSet : IsRaise(r[a])
            THEN Raise("AttributeError")
            ELSE PyDict(r)

\* the try block without its except clause
get_pollenstiftung_unguarded(lat, lon, reply) ==
    pollenstiftung_try(lat, lon, reply)

\* lines 43-55: except Exception returns the all-None reading
get_pollenstiftung(lat, lon, reply) ==
    LET r == pollenstiftung_try(lat, lon, reply)
    IN IF IsRaise(r) THEN AllAbsent ELSE r

----------------------------------------------------------------------------
(* get_dwd_pollen: lines 58-72 *)

DwdColumn == [a \in AllergenSet |->
                 IF a = "birke" THEN "Birke"
                 ELSE IF a = "gräser" THEN "Gräser" ELSE "Ambrosia"]

\* parse_dates=['date'], dayfirst=True: the text a.b. is day a of month b
ParseDayFirst(t) == Timestamp(t[1], t[2])
\* the dates of the 'date' column as read_csv parses them (line 64)
ParseDates(t) == ParseDayFirst(t)

\* pd.to_datetime(dt) of a datetime.date
ToDatetime(dt) == Timestamp(dt.day, dt.month)

\* row.get(col): None when the dataset has no such column
RowGet(cols, row, col) == IF col \in cols THEN row.cells[col] ELSE None

\* df[df['date'] == pd.to_datetime(dt)]: the matching rows, in file order
MatchingRows(rows, dt) ==
    SelectSeq(rows, LAMBDA r : ParseDates(r.date) = ToDatetime(dt))

\* .iloc[-1]: the last of the rows
PickLast(rows) == rows[Len(rows)]
\* .iloc[0]: the first of the rows (line 65)
PickRow(rows) == rows[1]

\* the body of the try block, lines 64-70
dwd_try(lat, lon, dt, dl) ==
    IF dl.net # "ok" THEN Raise("URLError")
    ELSE IF ~dl.parses THEN Raise("ParserError")
    ELSE IF "date" \notin dl.cols THEN Raise("ValueError")
    ELSE LET sel == MatchingRows(dl.rows, dt)
         IN IF sel = <<>> THEN Raise("IndexError")
            ELSE PyDict([a \in AllergenSet |->
                            RowGet(dl.cols, PickRow(sel), DwdColumn[a])])

\* the try block without its except clause
get_dwd_pollen_unguarded(lat, lon, dt, dl) == dwd_try(lat, lon, dt, dl)

\* lines 63-72: except Exception returns the all-None reading
get_dwd_pollen(lat, lon, dt, dl) ==
    LET r == dwd_try(lat, lon, dt, dl)
    IN IF IsRaise(r) THEN AllAbsent ELSE r

----------------------------------------------------------------------------
(* The store file: DataFrame([entry]).to_csv, lines 121-126 *)

\* the keys of entry in insertion order (lines 113-120): the columns of
\* pd.DataFrame([entry])
EntryColumns == <<"Datum", "lat", "lon", "tavg", "rhum", "prcp",
                  "birke", "gräser", "ambrosia",
                  "muedigkeit", "nase_laufen", "halsweh", "anmerkungen">>
ColumnSet == {EntryColumns[i] : i \in 1..Len(EntryColumns)}

RECURSIVE Join(_, _)
\* sep.join(parts)
Join(parts, sep) ==
    IF parts = <<>> THEN <<>>
    ELSE IF Len(parts) = 1 THEN parts[1]
    ELSE parts[1] \o <<sep>> \o Join(Tail(parts), sep)

RECURSIVE Flatten(_)
\* the parts one after the other
Flatten(parts) ==
    IF parts = <<>> THEN <<>> ELSE parts[1] \o Flatten(Tail(parts))

\* a value inside the repr of a Series
ReprText(v) ==
    IF v.ty = "int" THEN IntText(v.v)
    ELSE IF v.ty = "nan" THEN <<"NaN">>
    ELSE <<"None">>

\* str(series): "Series([], Name: n, dtype)" when empty, else the index
\* name, one line per row and the footer "Name: n, dtype"
SeriesRepr(s) ==
    IF s.vals = <<>>
    THEN <<"Series([]", ",", " Name: ", s.name, ",", " dtype">>
    ELSE <<"time", "\n">>
         \o Flatten([i \in 1..Len(s.vals) |->
                       DateText(s.index[i]) \o <<" ">>
                       \o ReprText(s.vals[i]) \o <<"\n">>])
         \o <<"Name: ", s.name, ",", " dtype">>

\* the text of one cell: na_rep '' for None and NaN, str() of anything
\* else, in double quotes when it holds a comma or a line break
CellText(v) ==
    IF v.ty \in {"NoneType", "nan"} THEN <<>>
    ELSE IF v.ty = "int" THEN IntText(v.v)
    ELSE IF v.ty = "date" THEN DateText(v)
    ELSE IF v.ty = "str" THEN v.chars
    ELSE <<"\"">> \o SeriesRepr(v) \o <<"\"">>

\* one line of the file: the cells, comma separated, and the line end
CsvLine(cells) == Join(cells, ",") \o <<"\n">>

HeaderLine == CsvLine([i \in 1..Len(EntryColumns) |-> <<EntryColumns[i]>>])
RowLine(e) ==
    CsvLine([i \in 1..Len(EntryColumns) |->
                CellText(e.items[EntryColumns[i]])])

\* what to_csv writes for the one-row frame of e
CsvText(e, header) == (IF header THEN HeaderLine ELSE <<>>) \o RowLine(e)

\* to_csv is called with header=True on every path
HeaderAlways(fileExisted) == TRUE
\* line 124 passes header=False, line 126 leaves the default header=True
WriteHeader(fileExisted) == ~fileExisted

\* to_csv is called with the default mode 'w' on every path
AppendNever(fileExisted) == FALSE
\* line 124 passes mode='a', line 126 leaves the default mode 'w'
AppendMode(fileExisted) == fileExisted

\* one write(2) of data at offset off of a file with the content f
WriteAt(f, off, data) ==
    LET n == IF Len(f) > off + Len(data) THEN Len(f) ELSE off + Len(data)
    IN [i \in 1..n |->
           IF i > off /\ i <= off + Len(data) THEN data[i - off] ELSE f[i]]

\* whether position i of text lies outside double quotes
Unquoted(text, i) ==
    Cardinality({j \in 1..(i - 1) : text[j] = "\""}) % 2 = 0

\* the first sep of text outside double quotes, 0 when there is none
FirstSep(text, sep) ==
    LET at == {i \in 1..Len(text) : text[i] = sep /\ Unquoted(text, i)}
    IN IF at = {} THEN 0 ELSE CHOOSE i \in at : \A j \in at : i <= j

RECURSIVE Split(_, _, _)
\* text cut at every sep outside double quotes.  With keepLast the text
\* after the last sep is a piece even when empty.
Split(text, sep, keepLast) ==
    LET k == FirstSep(text, sep)
    IN IF k = 0
       THEN IF keepLast \/ text # <<>> THEN <<text>> ELSE <<>>
       ELSE <<SubSeq(text, 1, k - 1)>>
            \o Split(SubSeq(text, k + 1, Len(text)), sep, keepLast)

\* the rows a CSV reader finds in f: cut at line ends outside quotes
Records(f) == Split(f, "\n", FALSE)
\* the cells of one row
Fields(rec) == Split(rec, ",", TRUE)
\* a row as CsvLine wrote it, without its line end
Body(line) == SubSeq(line, 1, Len(line) - 1)

----------------------------------------------------------------------------
(* What the script run reads: the widgets and the remote services *)

WeatherColumns == {"tavg", "rhum", "prcp"}

\* the answers of Meteostat: no station directory, no station nearby, no
\* daily data, a frame without and with the day's row, and a frame that
\* has no rhum column
MetRow == [c \in WeatherColumns |->
              IF c = "tavg" THEN PyInt(12)
              ELSE IF c = "rhum" THEN PyInt(80) ELSE NaN]
Met(st, da, cols, has) ==
    [stations |-> st, daily |-> da, columns |-> cols, hasRow |-> has,
     row |-> [c \in cols |-> MetRow[c]]]
MetFrames == {Met("found", "ok", WeatherColumns, TRUE),
              Met("found", "ok", WeatherColumns, FALSE)}
MetAnswers == MetFrames
              \cup {Met("error", "error", {}, FALSE),
                    Met("empty", "error", {}, FALSE),
                    Met("found", "error", {}, FALSE),
                    Met("found", "ok", WeatherColumns \ {"rhum"}, TRUE)}

\* the answers of the Pollenstiftung service
IndexValues == {Missing, None, PyInt(0), PyInt(3)}
Slots == {Missing, None, PyInt(7)}
         \cup {[ty |-> "dict", index |-> v] : v \in IndexValues}
Bodies == {Unparsable, [ty |-> "list"], None}
          \cup {PyDict(kv) : kv \in [AllergenSet -> Slots]}
Reply(n, st, b) == [net |-> n, status |-> st, body |-> b]
\* 300 is neither 2xx nor an error status: raise_for_status lets it pass
Statuses == {200, 300, 404, 500}
Replies == {Reply("error", 0, Unparsable)}
           \cup {Reply("ok", st, b) : st \in Statuses, b \in Bodies}

\* the downloads of the DWD dataset: rows of day-first dates and the three
\* pollen columns, a file without the date or the Birke column, a file
\* that is no CSV, no file at all
DateTexts == {<<1, 5>>, <<5, 1>>, <<2, 5>>}
DwdColumns == {"date", "Birke", "Gräser", "Ambrosia"}
DwdCells == {[c \in DwdColumns \ {"date"} |->
                 IF c = "Birke" THEN b ELSE IF c = "Gräser" THEN g
                 ELSE PyInt(0)] :
             b \in {PyInt(0), PyInt(3)}, g \in {PyInt(1), NaN}}
DwdRows == {[date |-> t, cells |-> c] : t \in DateTexts, c \in DwdCells}
Download(n, ok, cols, rows) ==
    [net |-> n, parses |-> ok, cols |-> cols, rows |-> rows]
Tables == UNION {[1..n -> DwdRows] : n \in 0..MaxRows}
Downloads == {Download("error", FALSE, {}, <<>>),
              Download("ok", FALSE, {}, <<>>)}
             \cup {Download("ok", TRUE, cols, rows) :
                      cols \in {DwdColumns, DwdColumns \ {"date"},
                                DwdColumns \ {"Birke"}},
                      rows \in Tables}

\* the dates asked for
Dates == {Date(1, 5), Date(5, 1)}

\* the widgets of one run (lines 79-82, 106-109): date, coordinates in
\* whole degrees, pollen source, the three sliders 0..10 and the notes
Widgets(dt, la, lo, src, fa, ru, so, no) ==
    [dt |-> dt, lat |-> la, lon |-> lo, source |-> src, fatigue |-> fa,
     runnynose |-> ru, sorethroat |-> so, notes |-> no]
UIInputs ==
    {Widgets(Date(1, 5), 51, 10, "DWD Open Data", 5, 0, 0, <<>>),
     Widgets(Date(5, 1), -33, 151, "Pollenstiftung.de", 10, 3, 1,
             <<"o", "k">>)}

\* the answers a run of the app gets from the two pollen sources
AppReplies ==
    {Reply("ok", 500, Unparsable),
     Reply("ok", 200,
           PyDict([a \in AllergenSet |->
                      IF a = "birke" THEN [ty |-> "dict", index |-> PyInt(3)]
                      ELSE IF a = "gräser" THEN Missing
                      ELSE [ty |-> "dict", index |-> PyInt(0)]]))}
AppRow(t, b) ==
    [date |-> t,
     cells |-> [c \in DwdColumns \ {"date"} |->
                   IF c = "Birke" THEN PyInt(b)
                   ELSE IF c = "Gräser" THEN PyInt(1) ELSE PyInt(0)]]
AppDownloads ==
    {Download("error", FALSE, {}, <<>>),
     Download("ok", TRUE, DwdColumns,
              <<AppRow(<<5, 1>>, 0), AppRow(<<1, 5>>, 3)>>)}

\* the inputs of the runs of two concurrent sessions: notes of two lengths
RaceInputs ==
    {Widgets(Date(1, 5), 51, 10, "DWD Open Data", 5, 0, 0, <<>>),
     Widgets(Date(1, 5), 51, 10, "DWD Open Data", 5, 0, 0, <<"o", "k">>)}
RaceMet == {Met("found", "ok", WeatherColumns, TRUE)}
RaceDownloads ==
    {Download("ok", TRUE, DwdColumns, <<AppRow(<<1, 5>>, 3)>>)}

----------------------------------------------------------------------------
(* One run of the script, lines 79-120, up to the first access of the file *)

\* the dict of lines 113-120 with every pollen value None
AssembleWithoutPollen(ui, weather, pollen) ==
    PyDict([c \in ColumnSet |->
        IF c = "Datum" THEN ui.dt
        ELSE IF c = "lat" THEN PyInt(ui.lat)
        ELSE IF c = "lon" THEN PyInt(ui.lon)
        ELSE IF c \in WeatherColumns THEN Subscript(weather, c)
        ELSE IF c \in AllergenSet THEN None
        ELSE IF c = "muedigkeit" THEN PyInt(ui.fatigue)
        ELSE IF c = "nase_laufen" THEN PyInt(ui.runnynose)
        ELSE IF c = "halsweh" THEN PyInt(ui.sorethroat)
        ELSE Str(ui.notes)])

\* entry, lines 113-120
Assemble(ui, weather, pollen) ==
    PyDict([c \in ColumnSet |->
        IF c = "Datum" THEN ui.dt
        ELSE IF c = "lat" THEN PyInt(ui.lat)
        ELSE IF c = "lon" THEN PyInt(ui.lon)
        ELSE IF c \in WeatherColumns THEN Subscript(weather, c)
        ELSE IF c \in AllergenSet THEN Subscript(pollen, c)
        ELSE IF c = "muedigkeit" THEN PyInt(ui.fatigue)
        ELSE IF c = "nase_laufen" THEN PyInt(ui.runnynose)
        ELSE IF c = "halsweh" THEN PyInt(ui.sorethroat)
        ELSE Str(ui.notes)])

\* the history of a run: the two triggers, how the weather lookup ended
\* ("none", "failed", "nostation", "ok"), whether the pollen provider was
\* called, how the write ended ("none", "failed", "created", "appended"),
\* and, while the save block runs, what was fetched and for what
Trace(f, s, wx, pc_, wr, args, weather, pollen) ==
    [fetch |-> f, save |-> s, wx |-> wx, pollenCalled |-> pc_, write |-> wr,
     args |-> args, weather |-> weather, pollen |-> pollen]
NoTrace ==
    Trace(FALSE, FALSE, "none", FALSE, "none", <<>>, Undefined, Undefined)

\* the run has ended (the script fell through or an exception left it)
Ended(page, f, s, wx, pc_) ==
    [next |-> "idle", shown |-> page, entry |-> Undefined,
     trace |-> Trace(f, s, wx, pc_, "none", <<>>, Undefined, Undefined)]

\* line 112 is nested in the block of line 84: the save block runs only
\* in a run in which both buttons return True
SaveReached(fetchBtn, saveBtn) == fetchBtn /\ saveBtn

\* lines 84-120.  fetchBtn and saveBtn are what the two st.button calls
\* return in this run.  An exception that leaves the script ends the run
\* and is shown on the page.
ScriptRun(ui, fetchBtn, saveBtn, met, reply, dl) ==
    LET weather == IF fetchBtn
                   THEN get_weather(ui.dt, ui.lat, ui.lon, met)
                   ELSE Undefined
        wx == IF ~fetchBtn THEN "none"
              ELSE IF IsRaise(weather) THEN "failed"
              ELSE IF weather.ty = "NoneType" THEN "nostation"
              ELSE "ok"
        pollen == IF ~fetchBtn THEN Undefined
                  ELSE IF ui.source = "Pollenstiftung.de"
                  THEN get_pollenstiftung(ui.lat, ui.lon, reply)
                  ELSE get_dwd_pollen(ui.lat, ui.lon, ui.dt, dl)
        e == Assemble(ui, weather, pollen)
    IN IF fetchBtn /\ IsRaise(weather)
       THEN Ended("exception", TRUE, FALSE, wx, FALSE)            \* line 86
       ELSE IF fetchBtn
               /\ \E c \in WeatherColumns : IsRaise(Subscript(weather, c))
       THEN Ended("exception", TRUE, FALSE, wx, FALSE)         \* lines 88-90
       ELSE IF fetchBtn /\ IsRaise(pollen)
       THEN Ended("exception", TRUE, FALSE, wx, TRUE)          \* lines 94, 97
       ELSE IF fetchBtn
               /\ \E a \in AllergenSet : IsRaise(Subscript(pollen, a))
       THEN Ended("exception", TRUE, FALSE, wx, TRUE)       \* lines 100-102
       ELSE IF ~SaveReached(fetchBtn, saveBtn)
       THEN Ended(IF fetchBtn THEN "data" ELSE "inputs",
                  fetchBtn, FALSE, wx, fetchBtn)
       ELSE IF \E c \in ColumnSet : IsRaise(e.items[c])
       THEN Ended("exception", fetchBtn, TRUE, wx, fetchBtn) \* lines 113-120
       ELSE [next |-> "exists", shown |-> "running", entry |-> e,
             trace |-> Trace(fetchBtn, TRUE, wx, fetchBtn, "none",
                             <<ui.dt, ui.lat, ui.lon>>, weather, pollen)]

\* the saves that have returned or are under way
Started == Len(saved) + Cardinality({p \in DOMAIN pc : pc[p] # "idle"})

\* Only what the run asks for is answered: nothing without the fetch
\* trigger, and of the two pollen sources the one selected (lines 93-98)
Asked(answers, asked) ==
    IF asked THEN answers ELSE {CHOOSE a \in answers : TRUE}

RunWith(p, inputs, mets, replies, downloads) ==
    /\ pc[p] = "idle"
    /\ \E fetchBtn \in BOOLEAN :
       \E ui \in Asked(inputs, fetchBtn) :
       \E saveBtn \in Asked(BOOLEAN, fetchBtn),
          met \in Asked(mets, fetchBtn),
          reply \in Asked(replies,
                          fetchBtn /\ ui.source = "Pollenstiftung.de"),
          dl \in Asked(downloads,
                       fetchBtn /\ ui.source # "Pollenstiftung.de") :
          LET r == ScriptRun(ui, fetchBtn, saveBtn, met, reply, dl)
          IN /\ r.next = "idle" \/ Started < MaxSaves
             /\ pc' = [pc EXCEPT ![p] = r.next]
             /\ entry' = [entry EXCEPT ![p] = r.entry]
             /\ shown' = [shown EXCEPT ![p] = r.shown]
             /\ trace' = [trace EXCEPT ![p] = r.trace]
    /\ UNCHANGED <<file, fileExists, saved, failed, existed, call>>

\* a run of the app
Run(p) == RunWith(p, UIInputs, MetAnswers, AppReplies, AppDownloads)
\* a run of one of two concurrent sessions
RunSession(p) == RunWith(p, RaceInputs, RaceMet, AppReplies, RaceDownloads)

----------------------------------------------------------------------------
(* The save block from its first access of the file on, lines 123-127 *)

\* line 123: os.path.exists(file)
Exists(p) ==
    /\ pc[p] = "exists"
    /\ existed' = [existed EXCEPT ![p] = fileExists]
    /\ pc' = [pc EXCEPT ![p] = "open"]
    /\ UNCHANGED <<file, fileExists, saved, failed, entry, shown, trace, call>>

\* st.success is reached whether or not to_csv raised
ShownSwallowed(ok) == "success"
\* what the page shows after to_csv: line 127 is reached only when the
\* call returned; an OSError leaves the script and is shown instead
ShownAfterWrite(ok) == IF ok THEN "success" ELSE "exception"

\* to_csv did not return: the run ends with the exception
WriteFailed(p) ==
    /\ pc' = [pc EXCEPT ![p] = "idle"]
    /\ entry' = [entry EXCEPT ![p] = Undefined]
    /\ existed' = [existed EXCEPT ![p] = FALSE]
    /\ failed' = TRUE
    /\ shown' = [shown EXCEPT ![p] = ShownAfterWrite(FALSE)]
    /\ trace' = [trace EXCEPT ![p] =
                    Trace(@.fetch, @.save, @.wx, @.pollenCalled, "failed",
                          <<>>, Undefined, Undefined)]

\* to_csv opens the file (lines 124, 126): mode 'a' leaves its content,
\* mode 'w' creates it or cuts it to nothing.  The open may fail, and then
\* the file is as it was.
Open(p) ==
    /\ pc[p] = "open"
    /\ \E ok \in BOOLEAN :
          IF ok
          THEN /\ fileExists' = TRUE
               /\ file' = IF AppendMode(existed[p]) THEN file ELSE <<>>
               /\ pc' = [pc EXCEPT ![p] = "write"]
               /\ UNCHANGED <<failed, entry, existed, shown, trace>>
          ELSE /\ WriteFailed(p)
               /\ UNCHANGED <<file, fileExists>>
    /\ UNCHANGED <<saved, call>>

\* to_csv writes the text of the frame as the file is closed, in one
\* write: at the end of the file in mode 'a' (O_APPEND), at offset 0 of
\* its own descriptor in mode 'w'.  Then lines 127-128.  A write that
\* fails writes nothing.
Write(p) ==
    /\ pc[p] = "write"
    /\ \E ok \in BOOLEAN :
          IF ok
          THEN LET data == CsvText(entry[p], WriteHeader(existed[p]))
               IN /\ file' = IF AppendMode(existed[p])
                              THEN file \o data
                              ELSE WriteAt(file, 0, data)
                  /\ saved' = Append(saved, entry[p])
                  /\ failed' = failed
                  /\ pc' = [pc EXCEPT ![p] = "idle"]
                  /\ entry' = [entry EXCEPT ![p] = Undefined]
                  /\ existed' = [existed EXCEPT ![p] = FALSE]
                  /\ shown' = [shown EXCEPT ![p] = ShownAfterWrite(TRUE)]
                  /\ trace' = [trace EXCEPT ![p] =
                        Trace(@.fetch, @.save, @.wx, @.pollenCalled,
                              IF existed[p] THEN "appended" ELSE "created",
                              <<>>, Undefined, Undefined)]
          ELSE /\ WriteFailed(p)
               /\ UNCHANGED <<file, saved>>
    /\ UNCHANGED <<fileExists, call>>

----------------------------------------------------------------------------
(* Direct calls of the three providers *)

NoCall == [fn |-> "none", dt |-> Undefined, input |-> Undefined,
           out |-> Undefined]

\* the forms of a date get_weather accepts, and a text that is no date
DateForms == Dates
             \cup {Timestamp(d.day, d.month) : d \in Dates}
             \cup {Str(DateText(d)) : d \in Dates}
             \cup {Str(<<"2024", "-", "1", "3", "-", "0", "1">>)}

CallWeather ==
    /\ call = NoCall
    /\ \E dt \in DateForms, met \in MetAnswers :
        /\ call' = [fn |-> "get_weather", dt |-> dt, input |-> met,
                    out |-> get_weather(dt, 51, 10, met)]
        /\ UNCHANGED <<file, fileExists, saved, failed, pc, entry, existed,
                       shown, trace>>

CallPollenstiftung ==
    /\ call = NoCall
    /\ \E reply \in Replies :
        /\ call' = [fn |-> "get_pollenstiftung", dt |-> Undefined,
                    input |-> reply,
                    out |-> get_pollenstiftung(51, 10, reply)]
        /\ UNCHANGED <<file, fileExists, saved, failed, pc, entry, existed,
                       shown, trace>>

CallDwd ==
    /\ call = NoCall
    /\ \E dt \in Dates, dl \in Downloads :
        /\ call' = [fn |-> "get_dwd_pollen", dt |-> dt, input |-> dl,
                    out |-> get_dwd_pollen(51, 10, dt, dl)]
        /\ UNCHANGED <<file, fileExists, saved, failed, pc, entry, existed,
                       shown, trace>>

----------------------------------------------------------------------------
(* Specifications *)

InitProcs(procs) ==
    /\ file = <<>>
    /\ fileExists = FALSE
    /\ saved = <<>>
    /\ failed = FALSE
    /\ pc = [p \in procs |-> "idle"]
    /\ entry = [p \in procs |-> Undefined]
    /\ existed = [p \in procs |-> FALSE]
    /\ shown = [p \in procs |-> "none"]
    /\ trace = [p \in procs |-> NoTrace]
    /\ call = NoCall

\* one session of the app on a store that does not exist yet
Init == InitProcs({1})
Next ==
    \/ \E p \in DOMAIN pc : Run(p)
    \/ \E p \in DOMAIN pc : Exists(p)
    \/ \E p \in DOMAIN pc : Open(p)
    \/ \E p \in DOMAIN pc : Write(p)
Spec == Init /\ [][Next]_vars

\* two sessions on the same store
InitConc == InitProcs({1, 2})
NextConc ==
    \/ \E p \in DOMAIN pc : RunSession(p)
    \/ \E p \in DOMAIN pc : Exists(p)
    \/ \E p \in DOMAIN pc : Open(p)
    \/ \E p \in DOMAIN pc : Write(p)
SpecConc == InitConc /\ [][NextConc]_vars

\* the providers called on every answer of their services
NextProviders == CallWeather \/ CallPollenstiftung \/ CallDwd
SpecProviders == Init /\ [][NextProviders]_vars

----------------------------------------------------------------------------
(* Properties *)

Procs == DOMAIN pc
RowOf(e) == Body(RowLine(e))
HeaderRow == Body(HeaderLine)
\* the rows of the file that are not the header row
DataRows(f) == SelectSeq(Records(f), LAMBDA r : r # HeaderRow)
IsPrefix(a, b) == Len(a) <= Len(b) /\ SubSeq(b, 1, Len(a)) = a

\* C1: from a store that does not exist, after N >= 1 saves that all
\* returned, the file is one header row and then N data rows, every row
\* has the 13 columns of the entry in their order, and no row after the
\* first is a header.
C1_OneHeaderThenRows ==
    (~failed /\ Len(saved) >= 1) =>
        LET recs == Records(file)
        IN /\ Len(recs) = Len(saved) + 1
           /\ Fields(recs[1]) = [i \in 1..13 |-> <<EntryColumns[i]>>]
           /\ \A i \in 2..Len(recs) :
                 /\ recs[i] # HeaderRow
                 /\ Len(Fields(recs[i])) = Len(Fields(recs[1]))
                 /\ Fields(recs[i]) =
                        [k \in 1..13 |->
                            CellText(saved[i - 1].items[EntryColumns[k]])]
C1_Witness ==
    /\ ~failed
    /\ Len(saved) = 2
    /\ Len(Records(file)) = 3
    /\ \A p \in Procs : pc[p] = "idle"

\* C2: a weather lookup that finds no station, or that fails, does not end
\* the run with an exception, and the pollen provider is still called.
C2_WeatherNeverAborts ==
    \A p \in Procs :
        trace[p].wx \in {"nostation", "failed"} =>
            shown[p] # "exception" /\ trace[p].pollenCalled

\* what a body that get_pollenstiftung can read holds for allergen a: the
\* index of its object, absent without the key or without an index
IndexOf(body, a) ==
    IF body.items[a] = Missing THEN None
    ELSE IF body.items[a].index = Missing THEN None
    ELSE body.items[a].index
\* the body is an object whose allergens, where present, are objects
WellFormed(body) ==
    /\ body.ty = "dict"
    /\ \A a \in AllergenSet :
          body.items[a] # Missing => body.items[a].ty = "dict"
PollenstiftungReads(reply, out, isFailure) ==
    /\ out.ty = "dict"
    /\ DOMAIN out.items = AllergenSet
    /\ isFailure => out = AllAbsent
    /\ ~isFailure =>
          \A a \in AllergenSet : out.items[a] = IndexOf(reply.body, a)

\* C3 as claimed: get_pollenstiftung returns a reading with exactly the
\* three keys; on a connection error, a status that is not 2xx, an
\* unparsable body or a body of unexpected shape all three are absent;
\* otherwise each allergen has the index of the response, absent when its
\* key is missing.
C3_AsClaimed ==
    call.fn = "get_pollenstiftung" =>
        PollenstiftungReads(call.input, call.out,
            \/ call.input.net # "ok"
            \/ call.input.status \notin 200..299
            \/ ~WellFormed(call.input.body))

\* C3 amended: the same with the error statuses 4xx and 5xx in place of
\* every status that is not 2xx.
C3_ErrorsSwallowed ==
    call.fn = "get_pollenstiftung" =>
        PollenstiftungReads(call.input, call.out,
            \/ call.input.net # "ok"
            \/ call.input.status \in 400..599
            \/ ~WellFormed(call.input.body))
C3_Witness ==
    /\ call.fn = "get_pollenstiftung"
    /\ call.input.net = "ok"
    /\ call.input.status = 500
    /\ WellFormed(call.input.body)
    /\ IndexOf(call.input.body, "birke") = PyInt(3)
    /\ call.out = AllAbsent

\* the download is a table with a date column
IsTable(dl) == dl.net = "ok" /\ dl.parses /\ "date" \in dl.cols
\* row r of the dataset is dated dt: its day-first text names dt
Dated(r, dt) == r.date[1] = dt.day /\ r.date[2] = dt.month

\* C4: for a downloaded dataset with at least one row dated as asked,
\* get_dwd_pollen returns the Birke, Gräser and Ambrosia values of the
\* first such row in file order.
C4_FirstMatchingRow ==
    (call.fn = "get_dwd_pollen" /\ IsTable(call.input)) =>
        \A i \in 1..Len(call.input.rows) :
            (/\ Dated(call.input.rows[i], call.dt)
             /\ \A j \in 1..(i - 1) : ~Dated(call.input.rows[j], call.dt))
            => /\ call.out.ty = "dict"
               /\ \A a \in AllergenSet :
                     call.out.items[a] =
                        IF DwdColumn[a] \in call.input.cols
                        THEN call.input.rows[i].cells[DwdColumn[a]]
                        ELSE None
C4_Witness ==
    /\ call.fn = "get_dwd_pollen"
    /\ IsTable(call.input)
    /\ call.input.cols = DwdColumns
    /\ Len(call.input.rows) = 2
    /\ ~Dated(call.input.rows[1], call.dt)
    /\ Dated(call.input.rows[2], call.dt)
    /\ call.out.items["birke"] = PyInt(3)
    /\ call.out.items["gräser"] = PyInt(1)
    /\ call.out.items["ambrosia"] = PyInt(0)

\* C5: get_dwd_pollen always returns a reading, and with no row dated as
\* asked, or a download or parse that fails, all three values are absent.
C5_DwdAbsent ==
    call.fn = "get_dwd_pollen" =>
        /\ call.out.ty = "dict"
        /\ DOMAIN call.out.items = AllergenSet
        /\ (\/ ~IsTable(call.input)
            \/ \A i \in 1..Len(call.input.rows) :
                  ~Dated(call.input.rows[i], call.dt))
           => call.out = AllAbsent
C5_Witness ==
    /\ call.fn = "get_dwd_pollen"
    /\ IsTable(call.input)
    /\ Len(call.input.rows) = 2
    /\ \A i \in 1..2 : ~Dated(call.input.rows[i], call.dt)
    /\ call.out = AllAbsent

\* C6: a run whose write failed shows the exception and not the success
\* message, and the success message is shown only when the write has
\* completed: the last row of the file is then the entry just saved.
C6_WriteFailureShown ==
    \A p \in Procs :
        /\ trace[p].write = "failed" => shown[p] = "exception"
        /\ shown[p] = "success" =>
              /\ trace[p].write \in {"created", "appended"}
              /\ saved # <<>>
              /\ Records(file) # <<>>
              /\ Records(file)[Len(Records(file))] =
                    RowOf(saved[Len(saved)])
C6_Witness ==
    /\ trace[1].write = "failed"
    /\ shown[1] = "exception"
    /\ failed
    /\ fileExists
    /\ file = <<>>

\* C7: the data rows of the store are the entries of the saves that
\* returned, in save order and as assembled; a step that changes the file
\* is a save that returns, and it keeps every earlier row in its place.
C7_AppendOnly ==
    /\ [](DataRows(file) = [i \in 1..Len(saved) |-> RowOf(saved[i])])
    /\ [][file' # file =>
            /\ saved' # saved
            /\ IsPrefix(DataRows(file), DataRows(file'))]_vars
C7_Witness ==
    /\ Len(saved) = 2
    /\ saved[1] # saved[2]
    /\ failed
    /\ trace[1].fetch /\ ~trace[1].save /\ shown[1] = "data"

\* C8: every row of the file is the complete header or the complete row of
\* a saved entry.
C8_NoTornRow ==
    \A k \in 1..Len(Records(file)) :
        \/ Records(file)[k] = HeaderRow
        \/ \E i \in 1..Len(saved) : Records(file)[k] = RowOf(saved[i])

\* C9: the save block runs only in a run whose fetch trigger is active and
\* that has fetched weather and pollen, and the entry it writes holds the
\* date and coordinates of the run and the weather and pollen values
\* fetched in it for that date.
C9_SaveAfterFetch ==
    \A p \in Procs :
        /\ trace[p].write # "none" => trace[p].fetch /\ trace[p].save
        /\ pc[p] # "idle" =>
              LET t == trace[p]
                  e == entry[p].items
              IN /\ t.fetch /\ t.save /\ t.wx = "ok" /\ t.pollenCalled
                 /\ t.weather.ty = "DataFrame"
                 /\ t.pollen.ty = "dict"
                 /\ e["Datum"] = t.args[1]
                 /\ e["lat"] = PyInt(t.args[2])
                 /\ e["lon"] = PyInt(t.args[3])
                 /\ \A c \in WeatherColumns :
                       /\ e[c].ty = "Series"
                       /\ e[c].vals = t.weather.data[c]
                       /\ \A i \in 1..Len(e[c].index) :
                             e[c].index[i] = t.args[1]
                 /\ \A a \in AllergenSet : e[a] = t.pollen.items[a]
C9_Witness ==
    /\ pc[1] = "write"
    /\ entry[1].items["birke"] = PyInt(3)
    /\ entry[1].items["tavg"].vals = <<PyInt(12)>>
    /\ Len(saved) = 1

\* C10: when two sessions have both saved to a store that did not exist
\* and both show the success message, the file is one header row and the
\* data rows of both entries.
C10_NoLostEntry ==
    (\A p \in Procs : shown[p] = "success" /\ trace[p].write = "created")
        => /\ Len(Records(file)) = Len(saved) + 1
           /\ Records(file)[1] = HeaderRow
           /\ \A i \in 1..Len(saved) :
                 \E k \in 2..Len(Records(file)) :
                     Records(file)[k] = RowOf(saved[i])

====
